---- MODULE Spec2Model ----
(***************************************************************************)
(* State-machine model of src/frontend/main.py: the notebook front end of  *)
(* the temporal-graph explorer.  Every component of the front end is a     *)
(* group of variables with its own initial state and actions; a            *)
(* specification per component runs that component's handlers.            *)
(***************************************************************************)
EXTENDS Integers, Sequences, FiniteSets, TLC

(***************************************************************************)
(* Bounds of the model.                                                    *)
(***************************************************************************)
\* handler calls of the queries manager in one behaviour
MaxQueryOps == 5
\* largest clause id of the clause dictionaries given to build_clause
MaxRawClauseId == 4
\* most clauses in a clause dictionary given to build_clause
MaxRawClauses == 3
\* start() and stop() calls on one loading indicator
MaxCalls == 6
\* longest list of requested node measures
MaxRequested == 3
\* handler calls of the queries manager in a behaviour of the display manager
MaxDisplayQueryOps == 1
\* most time steps of a temporal graph
MaxTimesteps == 1
MaxFigureTimesteps == 3

(***************************************************************************)
(* The temporal graph the queries manager is built on: four nodes with one *)
(* ordinal, one interval and one nominal global attribute.                 *)
(***************************************************************************)
\* temp_graph.get_nodes(), in the order the graph returns them
GraphNodes == <<1, 2, 3, 4>>

NodeIds == {GraphNodes[i] : i \in DOMAIN GraphNodes}

\* node.get_global_attribute(name)
NodeAttributes ==
    [n \in NodeIds |->
        CASE n = 1 -> [grade |-> "low",  age |-> 0, sex |-> "F"]
          [] n = 2 -> [grade |-> "mid",  age |-> 1, sex |-> "M"]
          [] n = 3 -> [grade |-> "high", age |-> 2, sex |-> "F"]
          [] n = 4 -> [grade |-> "mid",  age |-> 2, sex |-> "M"]]

AttributeNames == {"grade", "age", "sex", "Node ID"}

\* attribute_info[name]['measurement_type']
measurement_type(name) ==
    CASE name = "grade"   -> "O"
      [] name = "age"     -> "I"
      [] name = "sex"     -> "N"
      [] name = "Node ID" -> "ID"

\* attribute_info[name]['categories']: ascending order for an ordinal attribute
categories(name) ==
    CASE name = "grade" -> <<"low", "mid", "high">>
      [] name = "sex"   -> <<"F", "M">>

\* attribute_info[name]['range']
AgeRange == 0 .. 2

get_global_attribute(n, name) ==
    CASE name = "grade" -> NodeAttributes[n].grade
      [] name = "age"   -> NodeAttributes[n].age
      [] name = "sex"   -> NodeAttributes[n].sex

(***************************************************************************)
(* Dictionaries are functions on a finite set of integer keys.             *)
(***************************************************************************)
EmptyDict == [k \in {} |-> 0]

DictPut(d, key, v) == [k \in DOMAIN d \cup {key} |-> IF k = key THEN v ELSE d[k]]

DictPop(d, key) == [k \in DOMAIN d \ {key} |-> d[k]]

MinOf(S) == CHOOSE m \in S : \A x \in S : m <= x

MaxOf(S) == CHOOSE m \in S : \A x \in S : m >= x

RECURSIVE SortedKeys(_)
\* sorted(d.items(), key=lambda t: int(t[0])): the keys in ascending order
SortedKeys(S) ==
    IF S = {} THEN <<>>
    ELSE LET m == MinOf(S) IN <<m>> \o SortedKeys(S \ {m})

Reverse(s) == [i \in 1 .. Len(s) |-> s[Len(s) + 1 - i]]

InSeq(x, s) == \E i \in 1 .. Len(s) : s[i] = x

\* list.remove(x): removes the first occurrence
RemoveFirst(s, x) ==
    LET i == MinOf({j \in 1 .. Len(s) : s[j] = x})
    IN  SubSeq(s, 1, i - 1) \o SubSeq(s, i + 1, Len(s))

(***************************************************************************)
(* vtna.filter as main.py uses it.  A NodeFilter is modelled by the set of *)
(* nodes of the graph it lets through.                                     *)
(***************************************************************************)
IndexIn(order, c) == CHOOSE i \in 1 .. Len(order) : order[i] = c

ordinal_attribute_greater_than_equal(name, v, order, n) ==
    IndexIn(order, get_global_attribute(n, name)) >= IndexIn(order, v)

ordinal_attribute_greater_than(name, v, order, n) ==
    IndexIn(order, get_global_attribute(n, name)) > IndexIn(order, v)

interval_attribute_greater_than_equal(name, v, n) == get_global_attribute(n, name) >= v

interval_attribute_greater_than(name, v, n) == get_global_attribute(n, name) > v

categorical_attribute_equal(name, v, n) == get_global_attribute(n, name) = v

\* NodeFilter(predicate), given the nodes of the graph the predicate accepts
NodeFilter(accepted) == [is_none |-> FALSE, nodes |-> accepted]

\* clause = None
NoneFilter == [is_none |-> TRUE, nodes |-> {}]

\* -f
FilterNeg(f) == [is_none |-> FALSE, nodes |-> NodeIds \ f.nodes]

\* f * g (a TypeError on None leaves no filter)
FilterMul(f, g) ==
    IF f.is_none THEN NoneFilter ELSE [is_none |-> FALSE, nodes |-> f.nodes \cap g.nodes]

\* f + g
FilterAdd(f, g) ==
    IF f.is_none THEN NoneFilter ELSE [is_none |-> FALSE, nodes |-> f.nodes \cup g.nodes]

\* node_filter(nodes): the nodes let through, in the order given
RECURSIVE ApplyFilter(_, _)
ApplyFilter(f, nodes) ==
    IF nodes = <<>> THEN <<>>
    ELSE (IF Head(nodes) \in f.nodes THEN <<Head(nodes)>> ELSE <<>>)
         \o ApplyFilter(f, Tail(nodes))

(***************************************************************************)
(* build_predicate and build_clause.                                       *)
(***************************************************************************)
\* lower bound of a range predicate, exclusive instead of inclusive
build_predicate_exclusive(raw_predicate, n) ==
    LET name  == raw_predicate.value[1]
        value == raw_predicate.value[2]
    IN  CASE measurement_type(name) = "O" ->
               /\ ordinal_attribute_greater_than(name, value[1], categories(name), n)
               /\ ~ordinal_attribute_greater_than(name, value[2], categories(name), n)
          [] measurement_type(name) = "I" ->
               /\ interval_attribute_greater_than(name, value[1], n)
               /\ ~interval_attribute_greater_than(name, value[2], n)
          [] measurement_type(name) = "N" -> categorical_attribute_equal(name, value, n)
          [] measurement_type(name) = "ID" -> n = value

\* build_predicate(raw_predicate, attribute_info)(n)
build_predicate(raw_predicate, n) ==
    LET name  == raw_predicate.value[1]
        value == raw_predicate.value[2]
    IN  CASE measurement_type(name) = "O" ->
               /\ ordinal_attribute_greater_than_equal(name, value[1], categories(name), n)
               /\ ~ordinal_attribute_greater_than(name, value[2], categories(name), n)
          [] measurement_type(name) = "I" ->
               /\ interval_attribute_greater_than_equal(name, value[1], n)
               /\ ~interval_attribute_greater_than(name, value[2], n)
          [] measurement_type(name) = "N" -> categorical_attribute_equal(name, value, n)
          [] measurement_type(name) = "ID" -> n = value

\* the operator case distinction with AND and OR exchanged
apply_operator_swapped(clause, op, node_filter) ==
    CASE op = "NEW"     -> node_filter
      [] op = "NOT"     -> FilterNeg(node_filter)
      [] op = "AND"     -> FilterAdd(clause, node_filter)
      [] op = "OR"      -> FilterMul(clause, node_filter)
      [] op = "AND NOT" -> FilterMul(clause, FilterNeg(node_filter))
      [] op = "OR NOT"  -> FilterAdd(clause, FilterNeg(node_filter))

\* one pass of build_clause's loop body: the case distinction on the operator
apply_operator(clause, op, node_filter) ==
    CASE op = "NEW"     -> node_filter
      [] op = "NOT"     -> FilterNeg(node_filter)
      [] op = "AND"     -> FilterMul(clause, node_filter)
      [] op = "OR"      -> FilterAdd(clause, node_filter)
      [] op = "AND NOT" -> FilterMul(clause, FilterNeg(node_filter))
      [] op = "OR NOT"  -> FilterAdd(clause, FilterNeg(node_filter))

RECURSIVE build_clause_loop(_, _, _)
\* the for loop of build_clause over the clauses still to visit
build_clause_loop(raw_clause, keys, clause) ==
    IF keys = <<>> THEN clause
    ELSE LET raw_predicate == raw_clause[Head(keys)]
             node_filter   ==
                 NodeFilter({n \in NodeIds : build_predicate(raw_predicate, n)})
         IN  build_clause_loop(raw_clause, Tail(keys),
                               apply_operator(clause, raw_predicate.operator, node_filter))

\* build_clause(raw_clause, attribute_info)
build_clause(raw_clause) ==
    build_clause_loop(raw_clause, SortedKeys(DOMAIN raw_clause), NoneFilter)

(***************************************************************************)
(* Inputs of the queries manager's handlers: what the attribute, value and *)
(* colour widgets may hold when a button is clicked.                       *)
(***************************************************************************)
\* color_picker.value
Colors == {"#0000FF", "#FF0000"}

\* default node colour of the style manager (INIT_NODE_COLOR)
DefaultColor == "#000000"

\* a click on an add-query button: (negated, color_picker.value,
\* attributes_dropdown.value, __fetch_current_value()); node 9 does not exist
AddQueryInputs ==
    { <<FALSE, "#0000FF", "sex", "F">>,
      <<TRUE,  "#FF0000", "Node ID", 1>>,
      <<FALSE, "#FF0000", "grade", <<"mid", "high">>>>,
      <<FALSE, "#0000FF", "Node ID", 9>> }

\* the operators the query template offers for a further clause
ClauseOperators == {"AND", "OR", "AND NOT", "OR NOT"}

\* a click on an add-clause button: (operator, attributes_dropdown.value,
\* __fetch_current_value())
AddClauseInputs ==
    { <<"AND", "Node ID", 1>>,
      <<"OR NOT", "sex", "F">>,
      <<"AND NOT", "grade", <<"low", "mid">>>> }

Modes == {"Filter", "Highlight"}

(***************************************************************************)
(* State.                                                                  *)
(***************************************************************************)
VARIABLES
    \* UIAttributeQueriesManager
    mode,                       \* filter_highlight_toggle_buttons.value
    filter_queries,             \* id -> [color, clauses]
    active_filter_queries,      \* list of ids
    filter_query_counter,
    highlight_queries,
    active_highlight_queries,
    highlight_query_counter,
    relevant_nodes_overview,    \* the entries of 'Overview: Queried Nodes'
    \* inputs and results of the pure functions
    raw_clause,                 \* clause id -> [operator, value]
    clause_result,              \* what build_clause returned
    raw_predicate,              \* [operator, value]
    predicate_result,           \* the nodes the built predicate accepts
    pure_pc,                    \* "idle", "input" or "done"
    \* handler calls made so far
    ops,
    \* LoadingIndicator
    box_display,                \* box.layout.display
    output,                     \* what the Output widget shows
    calls,                      \* the start() and stop() calls made so far
    \* NodeMeasuresManager
    requested_node_measures,    \* the constructor's argument
    node_measures,              \* name -> measure
    instantiated,               \* the measure classes instantiated, in order
    graph_measures,             \* the measures attached to the temporal graph
    nm_pc,                      \* "new", "constructed", "raised" or "added"
    \* UIDataUploadManager
    run_button_disabled,        \* run_button.disabled
    edge_list,                  \* None or what was read from the upload
    granularity,                \* None or the interval length in seconds
    granularity_bounded_int_text, \* no widget or [min, max, value]
    granularity_unit_dropdown,  \* no widget or the selected unit in seconds
    graph_data_output,          \* what graph_data_output shows
    \* UIGraphDisplayManager
    layout_select,              \* layout_select.value
    layout_function,            \* the layout function applied last
    apply_layout_button_disabled,
    temp_graph,                 \* None or the graph [timesteps, cumulative] and
                                \* whether the figure holds this graph
    cumulative_checkbox,        \* None or [value, disabled]
    figure,                     \* None or the TemporalGraphFigure
    layout_call,                \* None or the latest call of a layout function
    display_output,             \* "empty" or "graph"
    \* UIDefaultStyleOptionsManager
    style,                      \* the values of the style widgets
    apply_changes_button_disabled,
    \* export of the animation
    export_progressbar,         \* [max, value, description]
    download_button_disabled,   \* download_button.disabled
    queries_apply_button_disabled, \* the queries manager's apply button
    video_export_manager        \* None or the VideoExport

qvars == <<mode, filter_queries, active_filter_queries, filter_query_counter,
           highlight_queries, active_highlight_queries, highlight_query_counter,
           relevant_nodes_overview>>

pvars == <<raw_clause, clause_result, raw_predicate, predicate_result, pure_pc>>

lvars == <<box_display, output, calls>>

mvars == <<requested_node_measures, node_measures, instantiated, graph_measures, nm_pc>>

(***************************************************************************)
(* UIAttributeQueriesManager.                                              *)
(***************************************************************************)
\* UIAttributeQueriesManager.__init__ and __build_queries_menu
QueriesInit ==
    /\ mode = "Highlight"
    /\ filter_query_counter = 1
    /\ filter_queries = EmptyDict
    /\ active_filter_queries = <<>>
    /\ highlight_query_counter = 1
    /\ highlight_queries = EmptyDict
    /\ active_highlight_queries = <<>>
    /\ relevant_nodes_overview = <<>>

in_filter_mode == mode = "Filter"

get_active_queries_reference ==
    IF in_filter_mode THEN active_filter_queries ELSE active_highlight_queries

get_queries_reference == IF in_filter_mode THEN filter_queries ELSE highlight_queries

get_query_counter == IF in_filter_mode THEN filter_query_counter ELSE highlight_query_counter

\* a change made through the reference __get_queries_reference returned
store_queries(q) ==
    IF in_filter_mode
    THEN filter_queries' = q /\ UNCHANGED highlight_queries
    ELSE highlight_queries' = q /\ UNCHANGED filter_queries

\* a change made through the reference __get_active_queries_reference returned
store_active_queries(a) ==
    IF in_filter_mode
    THEN active_filter_queries' = a /\ UNCHANGED active_highlight_queries
    ELSE active_highlight_queries' = a /\ UNCHANGED active_filter_queries

increment_query_counter ==
    IF in_filter_mode
    THEN filter_query_counter' = filter_query_counter + 1 /\ UNCHANGED highlight_query_counter
    ELSE highlight_query_counter' = highlight_query_counter + 1 /\ UNCHANGED filter_query_counter

\* a reset that does not look at the mode
reset_query_counter_both == filter_query_counter' = 1 /\ highlight_query_counter' = 1

reset_query_counter ==
    IF in_filter_mode
    THEN filter_query_counter' = 1 /\ UNCHANGED highlight_query_counter
    ELSE highlight_query_counter' = 1 /\ UNCHANGED filter_query_counter

reset_queries ==
    IF in_filter_mode
    THEN filter_queries' = EmptyDict /\ UNCHANGED highlight_queries
    ELSE highlight_queries' = EmptyDict /\ UNCHANGED filter_queries

\* 'NOT' in operator
ContainsNOT(op) == op \in {"NOT", "AND NOT", "OR NOT"}

\* UIAttributeQueriesManager.RELEVANT_NODE_DISPLAY_LIMIT
RELEVANT_NODE_DISPLAY_LIMIT == 5

\* __create_queries_context: one entry per query of the selected mode, sorted
\* by id; the node summary of an entry is not set yet
create_queries_context(queries) ==
    LET keys == SortedKeys(DOMAIN queries)
    IN  [i \in 1 .. Len(keys) |-> [query_id |-> keys[i], summary |-> <<>>]]

\* node_count, first_nodes and are_all_nodes of one query
relevant_node_summary(query, nodes_displayed) ==
    LET node_filter    == build_clause(query.clauses)
        relevant_nodes == ApplyFilter(node_filter, GraphNodes)
        shown          == IF Len(relevant_nodes) < nodes_displayed
                          THEN Len(relevant_nodes) ELSE nodes_displayed
    IN  [node_count    |-> Len(relevant_nodes),
         first_nodes   |-> SubSeq(relevant_nodes, 1, shown),
         are_all_nodes |-> Len(relevant_nodes) <= nodes_displayed]

\* __construct_relevant_node_html on the queries and the active list of the
\* selected mode: the i-th active query, in the order of the dictionary (ids
\* are inserted in ascending order), enriches the i-th entry
construct_relevant_node_html(queries, active, nodes_displayed) ==
    LET context        == create_queries_context(queries)
        is_active(idx) == InSeq(idx, active)
        active_queries == SelectSeq(SortedKeys(DOMAIN queries), is_active)
    IN  [i \in 1 .. Len(context) |->
            IF i <= Len(active_queries)
            THEN [context[i] EXCEPT !.summary =
                     <<relevant_node_summary(queries[active_queries[i]],
                                             nodes_displayed)>>]
            ELSE context[i]]

\* __update_relevant_node_id_summary, at the end of a handler that leaves
\* the selected mode with these queries and this active list
update_relevant_node_id_summary(queries, active) ==
    relevant_nodes_overview' =
        construct_relevant_node_html(queries, active, RELEVANT_NODE_DISPLAY_LIMIT)

\* on_click of __build_add_query(negated)
AddQuery(negated, color, name, current_value) ==
    LET active_queries     == get_active_queries_reference
        query_counter_read == get_query_counter
        queries            == get_queries_reference
        new_active         == Append(active_queries, query_counter_read)
        new_queries        ==
            DictPut(queries, query_counter_read,
                    [color   |-> color,
                     clauses |-> DictPut(EmptyDict, 1,
                                    [operator |-> IF negated THEN "NOT" ELSE "NEW",
                                     value    |-> <<name, current_value>>])])
    IN  IF measurement_type(name) = "ID" /\ current_value \notin NodeIds
        THEN UNCHANGED qvars
        ELSE /\ store_active_queries(new_active)
             /\ store_queries(new_queries)
             /\ increment_query_counter
             /\ UNCHANGED mode
             /\ update_relevant_node_id_summary(new_queries, new_active)

\* on_click of build_add_query_clause
AddQueryClause(query_id, operator, name, value) ==
    LET queries        == get_queries_reference
        new_clause_idx == MaxOf(DOMAIN queries[query_id].clauses) + 1
        new_queries    ==
            [queries EXCEPT ![query_id].clauses =
               DictPut(@, new_clause_idx, [operator |-> operator, value |-> <<name, value>>])]
    IN  /\ query_id \in DOMAIN queries
        /\ store_queries(new_queries)
        /\ UNCHANGED <<mode, active_filter_queries, active_highlight_queries,
                       filter_query_counter, highlight_query_counter>>
        /\ update_relevant_node_id_summary(new_queries, get_active_queries_reference)

\* on_click of build_delete_query_clause
DeleteQueryClause(query_id, clause_id) ==
    LET queries == get_queries_reference
    IN  /\ query_id \in DOMAIN queries
        /\ clause_id \in DOMAIN queries[query_id].clauses
        /\ LET clause     == queries[query_id].clauses[clause_id]
               is_initial == clause.operator \in {"NEW", "NOT"}
               popped     == DictPop(queries[query_id].clauses, clause_id)
               new_queries ==
                   IF DOMAIN popped = {}
                   THEN DictPop(queries, query_id)
                   ELSE IF is_initial
                        THEN LET new_initial_idx == MinOf(DOMAIN popped)
                             IN  [queries EXCEPT ![query_id].clauses =
                                     [popped EXCEPT ![new_initial_idx].operator =
                                         IF ContainsNOT(@) THEN "NOT" ELSE "NEW"]]
                        ELSE [queries EXCEPT ![query_id].clauses = popped]
           IN  /\ store_queries(new_queries)
               /\ update_relevant_node_id_summary(new_queries,
                                                  get_active_queries_reference)
        /\ UNCHANGED <<mode, active_filter_queries, active_highlight_queries,
                       filter_query_counter, highlight_query_counter>>

\* on_click of build_delete_query
DeleteQuery(query_id) ==
    LET queries == get_queries_reference
    IN  /\ query_id \in DOMAIN queries
        /\ store_queries(DictPop(queries, query_id))
        /\ UNCHANGED <<mode, active_filter_queries, active_highlight_queries,
                       filter_query_counter, highlight_query_counter>>
        /\ update_relevant_node_id_summary(DictPop(queries, query_id),
                                           get_active_queries_reference)

\* on_click of build_switch_query
SwitchQuery(q_id) ==
    LET active_queries == get_active_queries_reference
        new_active     == IF InSeq(q_id, active_queries)
                          THEN RemoveFirst(active_queries, q_id)
                          ELSE Append(active_queries, q_id)
    IN  /\ q_id \in DOMAIN get_queries_reference
        /\ store_active_queries(new_active)
        /\ UNCHANGED <<mode, filter_queries, highlight_queries,
                       filter_query_counter, highlight_query_counter>>
        /\ update_relevant_node_id_summary(get_queries_reference, new_active)

\* on_click of build_paint_query
PaintQuery(query_id, color) ==
    LET queries == get_queries_reference
    IN  /\ query_id \in DOMAIN queries
        /\ store_queries([queries EXCEPT ![query_id].color = color])
        /\ UNCHANGED <<mode, active_filter_queries, active_highlight_queries,
                       filter_query_counter, highlight_query_counter>>
        /\ update_relevant_node_id_summary([queries EXCEPT ![query_id].color = color],
                                           get_active_queries_reference)

\* on_click of __build_delete_all_queries (the Reset button)
DeleteAllQueries ==
    /\ reset_queries
    /\ reset_query_counter
    /\ UNCHANGED <<mode, active_filter_queries, active_highlight_queries>>
    /\ update_relevant_node_id_summary(EmptyDict, get_active_queries_reference)

\* on_mode_change: the toggle buttons took the other value
ModeChange(new) ==
    /\ new # mode
    /\ mode' = new
    /\ UNCHANGED <<filter_queries, active_filter_queries, filter_query_counter,
                   highlight_queries, active_highlight_queries, highlight_query_counter>>
    /\ IF new = "Filter"
       THEN update_relevant_node_id_summary(filter_queries, active_filter_queries)
       ELSE update_relevant_node_id_summary(highlight_queries, active_highlight_queries)

\* the generator of get_node_filter / get_node_colors: the queries whose id is in the list
ActiveQueries(queries, active) ==
    [idx \in {i \in DOMAIN queries : InSeq(i, active)} |-> queries[idx]]

RECURSIVE filter_sum(_, _, _)
\* the second loop of transform_queries_to_filter
filter_sum(queries, keys, result_filter) ==
    IF keys = <<>> THEN result_filter
    ELSE LET clause == build_clause(queries[Head(keys)].clauses)
         IN  filter_sum(queries, Tail(keys),
                        IF result_filter.is_none THEN clause
                        ELSE FilterAdd(result_filter, clause))

\* transform_queries_to_filter(queries, attribute_info)
transform_queries_to_filter(queries) ==
    LET result_filter == filter_sum(queries, SortedKeys(DOMAIN queries), NoneFilter)
    IN  IF result_filter.is_none THEN NodeFilter(NodeIds) ELSE result_filter

RECURSIVE color_loop(_, _, _)
\* the loop of transform_queries_to_color_mapping over the queries still to visit
color_loop(queries, keys, colors) ==
    IF keys = <<>> THEN colors
    ELSE LET raw_clauses    == queries[Head(keys)]
             clause         == build_clause(raw_clauses.clauses)
             nodes_to_color == ApplyFilter(clause, GraphNodes)
         IN  color_loop(queries, Tail(keys),
                        [n \in DOMAIN colors |->
                            IF InSeq(n, nodes_to_color) THEN raw_clauses.color ELSE colors[n]])

\* the queries visited oldest first
color_mapping_oldest_first(queries, default_color) ==
    color_loop(queries, SortedKeys(DOMAIN queries), [n \in NodeIds |-> default_color])

\* transform_queries_to_color_mapping(queries, attribute_info, temp_graph, default_color)
transform_queries_to_color_mapping(queries, default_color) ==
    color_loop(queries, Reverse(SortedKeys(DOMAIN queries)), [n \in NodeIds |-> default_color])

\* get_node_filter over every stored filter query, active or not
get_node_filter_all_stored ==
    transform_queries_to_filter(filter_queries)

\* UIAttributeQueriesManager.get_node_filter
get_node_filter ==
    transform_queries_to_filter(ActiveQueries(filter_queries, active_filter_queries))

\* UIAttributeQueriesManager.get_node_colors(temp_graph, default_color)
get_node_colors(default_color) ==
    transform_queries_to_color_mapping(
        ActiveQueries(highlight_queries, active_highlight_queries), default_color)

(***************************************************************************)
(* The pure functions build_clause and build_predicate on drawn inputs.    *)
(***************************************************************************)
\* every value a predicate may carry, by attribute
RawValues ==
    {<<"grade", <<categories("grade")[i], categories("grade")[j]>>>> :
        i \in 1 .. 3, j \in 1 .. 3}
    \cup {<<"age", <<a, b>>>> : a \in AgeRange, b \in AgeRange}
    \cup {<<"sex", c>> : c \in {"F", "M"}}
    \cup {<<"Node ID", i>> : i \in NodeIds \cup {9}}

AllOperators == {"NEW", "NOT"} \cup ClauseOperators

\* the values the clauses of a drawn clause dictionary carry
ClauseValues ==
    { <<"sex", "F">>, <<"grade", <<"mid", "high">>>>, <<"age", <<0, 1>>>>, <<"Node ID", 1>> }

\* clause dictionaries as the handlers leave them: the first clause is NEW or NOT
RawClauseInputs ==
    UNION { { d \in [K -> [operator : AllOperators, value : ClauseValues]] :
                \A k \in K : (d[k].operator \in {"NEW", "NOT"}) <=> (k = MinOf(K)) } :
            K \in {L \in SUBSET (1 .. MaxRawClauseId) :
                       L # {} /\ Cardinality(L) <= MaxRawClauses} }

PureIdle ==
    /\ raw_clause = EmptyDict
    /\ clause_result = NoneFilter
    /\ raw_predicate = [operator |-> "NEW", value |-> <<"sex", "F">>]
    /\ predicate_result = {}
    /\ pure_pc = "idle"

ClauseInit ==
    /\ raw_clause \in RawClauseInputs
    /\ clause_result = NoneFilter
    /\ raw_predicate = [operator |-> "NEW", value |-> <<"sex", "F">>]
    /\ predicate_result = {}
    /\ pure_pc = "input"

PredicateInit ==
    /\ raw_clause = EmptyDict
    /\ clause_result = NoneFilter
    /\ raw_predicate \in [operator : AllOperators, value : RawValues]
    /\ predicate_result = {}
    /\ pure_pc = "input"

\* a call of build_clause
CallBuildClause ==
    /\ pure_pc = "input"
    /\ clause_result' = build_clause(raw_clause)
    /\ pure_pc' = "done"
    /\ UNCHANGED <<raw_clause, raw_predicate, predicate_result>>

\* a call of build_predicate, and of the predicate on every node
CallBuildPredicate ==
    /\ pure_pc = "input"
    /\ predicate_result' = {n \in NodeIds : build_predicate(raw_predicate, n)}
    /\ pure_pc' = "done"
    /\ UNCHANGED <<raw_clause, raw_predicate, clause_result>>

(***************************************************************************)
(* LoadingIndicator.                                                       *)
(***************************************************************************)
\* LoadingIndicator.__init__: the box is built and stop() is called
LoadingInit ==
    /\ box_display = "none"
    /\ output = <<>>
    /\ calls = <<>>

\* start() without clearing the output first
start_without_clear ==
    /\ output' = Append(output, "SVG")
    /\ box_display' = "flex"

\* LoadingIndicator.start
start ==
    /\ output' = <<"SVG">>
    /\ box_display' = "flex"

\* LoadingIndicator.stop
stop ==
    /\ output' = <<>>
    /\ box_display' = "none"

CallStart == Len(calls) < MaxCalls /\ start /\ calls' = Append(calls, "start")

CallStop == Len(calls) < MaxCalls /\ stop /\ calls' = Append(calls, "stop")

(***************************************************************************)
(* NodeMeasuresManager.                                                    *)
(***************************************************************************)
\* the keys of NodeMeasuresManager.node_measure_classes
MeasureNames ==
    { "Local Degree Centrality", "Global Degree Centrality",
      "Local Betweenness Centrality", "Global Betweenness Centrality",
      "Local Closeness Centrality", "Global Closeness Centrality" }

SeqsUpTo(S, n) == UNION {[1 .. k -> S] : k \in 0 .. n}

\* before the constructor runs: nothing is computed or attached
MeasuresIdle ==
    /\ requested_node_measures = <<>>
    /\ node_measures = EmptyDict
    /\ instantiated = <<>>
    /\ graph_measures = {}
    /\ nm_pc = "idle"

MeasuresInit ==
    /\ requested_node_measures \in SeqsUpTo(MeasureNames, MaxRequested)
    /\ node_measures = EmptyDict
    /\ instantiated = <<>>
    /\ graph_measures = {}
    /\ nm_pc = "new"

\* collections.Counter: how often a name is requested
Count(names, n) == Cardinality({i \in 1 .. Len(names) : names[i] = n})

\* the constructor with the measures computed before the duplicate check
NodeMeasuresManager_init_late_check ==
    LET duplicate_names == {n \in MeasureNames : Count(requested_node_measures, n) > 1}
    IN  /\ nm_pc = "new"
        /\ instantiated' = requested_node_measures
        /\ IF duplicate_names # {}
           THEN nm_pc' = "raised" /\ UNCHANGED node_measures
           ELSE /\ node_measures' =
                     [nm \in {requested_node_measures[i] :
                                 i \in 1 .. Len(requested_node_measures)} |-> nm]
                /\ nm_pc' = "constructed"
        /\ UNCHANGED <<requested_node_measures, graph_measures>>

\* NodeMeasuresManager.__init__
NodeMeasuresManager_init ==
    LET duplicate_names == {n \in MeasureNames : Count(requested_node_measures, n) > 1}
    IN  /\ nm_pc = "new"
        /\ IF duplicate_names # {}
           THEN \* raise DuplicateMeasuresError
                nm_pc' = "raised" /\ UNCHANGED <<node_measures, instantiated>>
           ELSE /\ instantiated' = requested_node_measures
                /\ node_measures' =
                     [nm \in {requested_node_measures[i] :
                                 i \in 1 .. Len(requested_node_measures)} |-> nm]
                /\ nm_pc' = "constructed"
        /\ UNCHANGED <<requested_node_measures, graph_measures>>

\* NodeMeasuresManager.add_all_to_graph
add_all_to_graph ==
    /\ nm_pc \in {"constructed", "added"}
    /\ graph_measures' = graph_measures \cup {node_measures[nm] : nm \in DOMAIN node_measures}
    /\ nm_pc' = "added"
    /\ UNCHANGED <<requested_node_measures, node_measures, instantiated>>

(***************************************************************************)
(* UIDataUploadManager: the graph upload and the granularity              *)
(* configuration.  None is <<>> and a value x is <<x>>.                    *)
(***************************************************************************)
\* what vtna.data_import reads from the edge tables a user can upload:
\* get_time_interval_of_edges and infer_update_delta of each edge list
EdgeLists ==
    { [earliest |-> 0,  latest |-> 400, update_delta |-> 2],
      [earliest |-> 20, latest |-> 140, update_delta |-> 1],
      [earliest |-> 0,  latest |-> 50,  update_delta |-> 1] }

\* the exceptions the upload handler catches
UploadErrors == {"FileNotFoundError", "URLError", "OSError", "ValueError"}

\* the outcomes of read_edge_table: an exception or an edge list
ReadOutcomes ==
    {[raises |-> <<e>>, edges |-> <<>>] : e \in UploadErrors}
    \cup {[raises |-> <<>>, edges |-> <<d>>] : d \in EdgeLists}

\* time_unit_dict, the units offered by the model
time_unit_dict == [seconds |-> 1, minutes |-> 60]

TimeUnits == {time_unit_dict.seconds, time_unit_dict.minutes}

\* what a user types into the interval-length field
TextInputs == {1, 2, 3, 50, 100, 120, 200}

\* no widget: graph_data_configuration_vbox.children = []
NoWidget == <<>>

Clamp(v, lo, hi) == IF v < lo THEN lo ELSE IF v > hi THEN hi ELSE v

\* widgets.BoundedIntText(value, min, max): raises TraitError when the
\* bounds cross, else the value is clamped into them
BoundedIntText(value, min, max) ==
    IF min > max
    THEN [raised |-> TRUE, min |-> min, max |-> max, value |-> value]
    ELSE [raised |-> FALSE, min |-> min, max |-> max,
          value |-> Clamp(value, min, max)]

\* assignment to BoundedIntText.min; a widget that raised is left alone
set_min(w, min) ==
    IF w.raised THEN w
    ELSE IF min > w.max THEN [w EXCEPT !.raised = TRUE]
    ELSE [w EXCEPT !.min = min, !.value = IF min > w.value THEN min ELSE w.value]

\* assignment to BoundedIntText.max
set_max(w, max) ==
    IF w.raised THEN w
    ELSE IF max < w.min THEN [w EXCEPT !.raised = TRUE]
    ELSE [w EXCEPT !.max = max, !.value = IF max < w.value THEN max ELSE w.value]

\* assignment to BoundedIntText.value
set_value(w, value) ==
    IF w.raised THEN w ELSE [w EXCEPT !.value = Clamp(value, w.min, w.max)]

\* UIDataUploadManager.__init__ without the line disabling the run button
UploadInit_button_left_enabled ==
    /\ run_button_disabled = FALSE
    /\ edge_list = <<>>
    /\ granularity = <<>>
    /\ granularity_bounded_int_text = NoWidget
    /\ granularity_unit_dropdown = NoWidget
    /\ graph_data_output = "empty"

\* UIDataUploadManager.__init__
UploadInit ==
    /\ run_button_disabled = TRUE
    /\ edge_list = <<>>
    /\ granularity = <<>>
    /\ granularity_bounded_int_text = NoWidget
    /\ granularity_unit_dropdown = NoWidget
    /\ graph_data_output = "empty"

\* __open_graph_config on the edge list just read; the widgets are put into
\* the configuration box only when their construction did not raise
open_graph_config(edges) ==
    LET w == BoundedIntText(edges.update_delta * 100, edges.update_delta,
                            edges.latest - edges.earliest)
    IN  /\ granularity' = <<edges.update_delta * 100>>
        /\ run_button_disabled' = FALSE
        /\ IF w.raised
           THEN /\ granularity_bounded_int_text' = NoWidget
                /\ granularity_unit_dropdown' = NoWidget
                /\ graph_data_output' = "empty"
           ELSE /\ granularity_bounded_int_text' = <<w>>
                /\ granularity_unit_dropdown' = <<time_unit_dict.seconds>>
                /\ graph_data_output' = "summary"

\* display_graph_upload_error
display_graph_upload_error ==
    graph_data_output' = "error"

\* handle_local_upload_graph_data: read_edge_table either raises one of the
\* caught exceptions or returns an edge list
handle_upload_graph_data(read) ==
    /\ IF read.raises # <<>>
       THEN /\ display_graph_upload_error
            /\ granularity_bounded_int_text' = NoWidget
            /\ granularity_unit_dropdown' = NoWidget
            /\ UNCHANGED <<run_button_disabled, edge_list, granularity>>
       ELSE /\ edge_list' = read.edges
            /\ open_graph_config(read.edges[1])
    /\ stop
    /\ UNCHANGED calls

\* the user edits the interval-length field
change_granularity_text(value) ==
    /\ granularity_bounded_int_text # NoWidget
    /\ granularity_bounded_int_text' =
           <<set_value(granularity_bounded_int_text[1], value)>>
    /\ UNCHANGED <<run_button_disabled, edge_list, granularity,
                   granularity_unit_dropdown, graph_data_output>>

\* update_granularity_step, observing the unit dropdown; the bounds of the
\* closure are those of the edge list the configuration was opened for
update_granularity_step(unit) ==
    /\ granularity_unit_dropdown # NoWidget
    /\ unit # granularity_unit_dropdown[1]
    /\ granularity_unit_dropdown' = <<unit>>
    /\ LET edges == edge_list[1]
           w     == granularity_bounded_int_text[1]
           new   == IF unit = time_unit_dict.seconds
                    THEN set_value(
                           set_max(set_min(w, edges.update_delta),
                                   edges.latest - edges.earliest),
                           edges.update_delta * 100)
                    ELSE set_value(
                           set_max(set_min(w, 1),
                                   (edges.latest - edges.earliest) \div unit),
                           1)
       IN  granularity_bounded_int_text' = <<[new EXCEPT !.raised = FALSE]>>
    /\ UNCHANGED <<run_button_disabled, edge_list, granularity, graph_data_output>>

\* update_granularity_and_graph_data_output, the Apply button
update_granularity_and_graph_data_output ==
    /\ granularity_bounded_int_text # NoWidget
    /\ LET edges           == edge_list[1]
           new_granularity == granularity_bounded_int_text[1].value
                              * granularity_unit_dropdown[1]
       IN  IF \/ new_granularity < edges.update_delta
              \/ new_granularity > edges.latest - edges.earliest
              \/ new_granularity % edges.update_delta # 0
           THEN /\ graph_data_output' = "invalid granularity"
                /\ UNCHANGED <<granularity, run_button_disabled>>
           ELSE /\ granularity' = <<new_granularity>>
                /\ run_button_disabled' = FALSE
                /\ graph_data_output' = "summary"
    /\ stop
    /\ UNCHANGED <<calls, edge_list, granularity_bounded_int_text,
                   granularity_unit_dropdown>>

(***************************************************************************)
(* UIGraphDisplayManager, TemporalGraphFigure and                          *)
(* UIDefaultStyleOptionsManager.  None is <<>> and an object x is <<x>>.   *)
(***************************************************************************)
\* UIGraphDisplayManager.LAYOUT_FUNCTIONS, the options of the layout dropdown
LAYOUT_FUNCTIONS ==
    << "static_spring_layout", "flexible_spring_layout",
       "static_weighted_spring_layout", "flexible_weighted_spring_layout",
       "chained_weighted_spring_layout", "random_walk_pca_layout" >>

\* the layouts a user selects in the model
LayoutSelections ==
    {"static_spring_layout", "flexible_spring_layout", "random_walk_pca_layout"}

\* the first list __compute_layout tests the selected layout against
SpringLayouts == {LAYOUT_FUNCTIONS[i] : i \in 1 .. 5}

\* the second list __compute_layout tests the selected layout against
PCALayouts == {LAYOUT_FUNCTIONS[6]}

\* the keyword arguments each layout function accepts besides temp_graph
accepted_parameters(func) ==
    IF func \in SpringLayouts THEN {"node_distance_scale", "n_iterations"}
    ELSE {"n", "repel"}

\* func.is_static of vtna.layout
is_static(func) ==
    func \in {"static_spring_layout", "static_weighted_spring_layout"}

\* TemporalGraphFigure.DEFAULT_ANIMATION_FRAME_LENGTH
DEFAULT_ANIMATION_FRAME_LENGTH == 700

\* the widget values of UIDefaultStyleOptionsManager.__init__; sizes in tenths
InitStyle ==
    [node_color |-> "#000000", edge_color |-> "#000000", node_size |-> 100,
     edge_width |-> 6, animation_frame_length |-> DEFAULT_ANIMATION_FRAME_LENGTH]

\* what a user enters into the style widgets
StyleInputs ==
    { InitStyle,
      [InitStyle EXCEPT !.node_color = "#00FF00", !.animation_frame_length = 500],
      [InitStyle EXCEPT !.edge_color = "#FF0000", !.node_size = -50] }

\* the measure selection the run button passes on
SelectedMeasures == {<<"Local Degree Centrality">>}

\* the add-query click made next to the display
DisplayQueryInputs == {<<FALSE, "#0000FF", "sex", "F">>}

Abs(x) == IF x < 0 THEN -x ELSE x

\* a colour map that is one colour string
UniformColor(color) == [uniform |-> <<color>>, map |-> EmptyDict]

\* a colour map that is a dictionary node id -> colour
ColorDict(map) == [uniform |-> <<>>, map |-> map]

\* TemporalGraphFigure.toggle_animate_transitions with the two times swapped
toggle_animate_transitions_swapped(animate_transitions) ==
    IF animate_transitions THEN 0 ELSE 300

\* TemporalGraphFigure.toggle_animate_transitions: the new __transition_time
toggle_animate_transitions(animate_transitions) ==
    IF animate_transitions THEN 300 ELSE 0

\* the edges of the temporal graph by timestep, as pairs of node ids; the
\* graph of a longer time range repeats them
GraphEdges ==
    << <<<<1, 2>>, <<3, 4>>>>,
       <<<<2, 3>>>>,
       <<<<1, 3>>, <<2, 4>>>> >>

\* the edges the graph has in one timestep by itself
own_edges(timestep) == GraphEdges[((timestep - 1) % Len(GraphEdges)) + 1]

RECURSIVE get_edges(_, _)
\* temp_graph[timestep].get_edges(): a cumulative graph holds the edges of
\* every timestep up to this one
get_edges(timestep, cumulative) ==
    IF cumulative /\ timestep > 1
    THEN get_edges(timestep - 1, cumulative) \o own_edges(timestep)
    ELSE own_edges(timestep)

\* the ids of all nodes, whatever the filter
unfiltered_node_ids(node_filter) == GraphNodes

\* the ids of the nodes a filter lets through, in the order of the graph
filtered_node_ids(node_filter) == ApplyFilter(node_filter, GraphNodes)

\* iteration over a Python set of small ints: in ascending order
SetIteration(S) == SortedKeys(S)

\* the marker colours of the node ids listed, for a dictionary or one string
marker_colors(color_map, ids) ==
    IF color_map.uniform = <<>>
    THEN [uniform |-> <<>>, list |-> [i \in 1 .. Len(ids) |-> color_map.map[ids[i]]]]
    ELSE [uniform |-> color_map.uniform, list |-> <<>>]

\* one pass of the loop of __build_data_frames: the frame of a timestep
build_frame(fig, timestep) ==
    LET node_ids      == filtered_node_ids(fig.node_filter)
        is_visible(e) == InSeq(e[1], node_ids) /\ InSeq(e[2], node_ids)
        edges         == SelectSeq(get_edges(timestep, fig.cumulative), is_visible)
        used_node_ids == {edges[i][1] : i \in 1 .. Len(edges)}
                         \cup {edges[i][2] : i \in 1 .. Len(edges)}
        ids           == SetIteration(used_node_ids)
    IN  [name |-> timestep - 1,
         edges |-> edges,
         edge_color |-> fig.edge_color,
         edge_width |-> fig.edge_width,
         node_ids |-> ids,
         colors |-> marker_colors(fig.color_map, ids),
         node_size |-> fig.node_size]

\* the figure with its 'data' left as it was
keep_figure_data(fig) == fig

\* TemporalGraphFigure.__set_figure_data_as_initial_frame
set_figure_data_as_initial_frame(fig) ==
    [fig EXCEPT !.data = <<fig.frames[1]>>]

\* TemporalGraphFigure.__build_data_frames (with __init_figure_data): the
\* figure data of figure fig built anew; the layout is taken to hold a
\* position for every node at every timestep
build_data_frames(fig) ==
    set_figure_data_as_initial_frame(
        [fig EXCEPT
            !.play_frame_duration = fig.frame_length,
            !.play_transition_duration = fig.transition_time,
            !.sliders_transition_duration = fig.transition_time,
            !.slider_steps = [timestep \in 1 .. fig.timesteps |-> fig.transition_time],
            !.slider_args = [timestep \in 1 .. fig.timesteps |-> timestep - 1],
            !.frames = [timestep \in 1 .. fig.timesteps |-> build_frame(fig, timestep)]])

\* TemporalGraphFigure.__init__ on a graph [timesteps, cumulative]
TemporalGraphFigure(graph, layout, animate_transitions, style_values) ==
    build_data_frames(
        [timesteps |-> graph.timesteps,
         cumulative |-> graph.cumulative,
         layout |-> layout,
         color_map |-> UniformColor(style_values.node_color),
         edge_color |-> style_values.edge_color,
         node_size |-> style_values.node_size,
         edge_width |-> style_values.edge_width,
         node_filter |-> NodeFilter(NodeIds),
         transition_time |-> toggle_animate_transitions(animate_transitions),
         frame_length |-> DEFAULT_ANIMATION_FRAME_LENGTH,
         play_frame_duration |-> 0,
         play_transition_duration |-> 0,
         sliders_transition_duration |-> 0,
         slider_steps |-> <<>>,
         slider_args |-> <<>>,
         frames |-> <<>>,
         data |-> <<>>])

\* TemporalGraphFigure.__recolor_displayed_nodes
recolor_displayed_nodes(fig) ==
    LET node_ids == filtered_node_ids(fig.node_filter)
        recolored(i) ==
            LET edges          == get_edges(i, fig.cumulative)
                incident       == {edges[k][1] : k \in 1 .. Len(edges)}
                                  \cup {edges[k][2] : k \in 1 .. Len(edges)}
                is_used(n)     == n \in incident
                used_node_ids  == SelectSeq(node_ids, is_used)
            IN  [fig.frames[i] EXCEPT
                    !.colors = marker_colors(fig.color_map, used_node_ids)]
    IN  [fig EXCEPT !.frames = [i \in 1 .. Len(fig.frames) |-> recolored(i)]]

\* TemporalGraphFigure.__recolor_displayed_edges
recolor_displayed_edges(fig) ==
    [fig EXCEPT !.frames =
        [i \in 1 .. Len(fig.frames) |-> [fig.frames[i] EXCEPT !.edge_color = fig.edge_color]]]

\* TemporalGraphFigure.__resize_displayed_nodes
resize_displayed_nodes(fig) ==
    [fig EXCEPT !.frames =
        [i \in 1 .. Len(fig.frames) |-> [fig.frames[i] EXCEPT !.node_size = fig.node_size]]]

\* TemporalGraphFigure.__resize_displayed_edges
resize_displayed_edges(fig) ==
    [fig EXCEPT !.frames =
        [i \in 1 .. Len(fig.frames) |-> [fig.frames[i] EXCEPT !.edge_width = fig.edge_width]]]

\* TemporalGraphFigure.update_filter
update_filter(fig, node_filter) ==
    build_data_frames([fig EXCEPT !.node_filter = node_filter])

\* TemporalGraphFigure.update_layout
update_layout(fig, layout) ==
    build_data_frames([fig EXCEPT !.layout = layout])

\* update_colors without the test for an unchanged colour map
update_colors_unguarded(fig, color_map) ==
    set_figure_data_as_initial_frame(
        recolor_displayed_nodes([fig EXCEPT !.color_map = color_map]))

\* TemporalGraphFigure.update_colors
update_colors(fig, color_map) ==
    IF fig.color_map # color_map
    THEN set_figure_data_as_initial_frame(
             recolor_displayed_nodes([fig EXCEPT !.color_map = color_map]))
    ELSE fig

\* TemporalGraphFigure.update_edge_color
update_edge_color(fig, color) ==
    IF fig.edge_color # color
    THEN set_figure_data_as_initial_frame(
             recolor_displayed_edges([fig EXCEPT !.edge_color = color]))
    ELSE fig

\* TemporalGraphFigure.update_node_size
update_node_size(fig, size) ==
    IF fig.node_size # size
    THEN set_figure_data_as_initial_frame(
             resize_displayed_nodes([fig EXCEPT !.node_size = size]))
    ELSE fig

\* TemporalGraphFigure.update_edge_width
update_edge_width(fig, width) ==
    IF fig.edge_width # width
    THEN set_figure_data_as_initial_frame(
             resize_displayed_edges([fig EXCEPT !.edge_width = width]))
    ELSE fig

\* TemporalGraphFigure.update_animation_frame_length
update_animation_frame_length(fig, frame_length) ==
    IF frame_length # fig.frame_length
    THEN [fig EXCEPT !.frame_length = frame_length,
                     !.play_frame_duration = frame_length]
    ELSE fig

\* the node filters, colour maps, layouts and style values handed to the
\* update operations of a figure
FilterInputs == {NodeFilter(NodeIds), NodeFilter({1, 3}), NodeFilter({2, 3, 4})}

ColorMapInputs ==
    { UniformColor("#000000"), UniformColor("#00FF00"),
      ColorDict([n \in NodeIds |-> "#000000"]),
      ColorDict([n \in NodeIds |-> IF n \in {1, 3} THEN "#0000FF" ELSE "#000000"]) }

LayoutInputs ==
    { [function |-> func, parameters |-> accepted_parameters(func)] :
        func \in {"static_spring_layout", "random_walk_pca_layout"} }

EdgeColorInputs == {"#000000", "#FF0000"}

NodeSizeInputs == {100, 50}

EdgeWidthInputs == {6, 12}

FrameLengthInputs == {DEFAULT_ANIMATION_FRAME_LENGTH, 500}

\* a figure constructed on a graph of some length, cumulative or not
FigureInit ==
    /\ layout_select = LAYOUT_FUNCTIONS[1]
    /\ layout_function = LAYOUT_FUNCTIONS[1]
    /\ apply_layout_button_disabled = FALSE
    /\ temp_graph = <<>>
    /\ cumulative_checkbox = <<>>
    /\ figure \in
          { <<TemporalGraphFigure([timesteps |-> timesteps, cumulative |-> cumulative],
                                  layout, animate_transitions, InitStyle)>> :
              timesteps \in 1 .. MaxFigureTimesteps, cumulative \in BOOLEAN,
              layout \in LayoutInputs, animate_transitions \in BOOLEAN }
    /\ layout_call = <<>>
    /\ display_output = "empty"
    /\ style = InitStyle
    /\ apply_changes_button_disabled = FALSE

\* what a call of a figure method leaves alone
FigureOnly ==
    UNCHANGED <<layout_select, layout_function, apply_layout_button_disabled,
                temp_graph, cumulative_checkbox, layout_call, display_output,
                style, apply_changes_button_disabled>>

CallUpdateFilter(node_filter) ==
    figure' = <<update_filter(figure[1], node_filter)>> /\ FigureOnly

CallUpdateLayout(layout) ==
    figure' = <<update_layout(figure[1], layout)>> /\ FigureOnly

CallUpdateColors(color_map) ==
    figure' = <<update_colors(figure[1], color_map)>> /\ FigureOnly

CallUpdateEdgeColor(color) ==
    figure' = <<update_edge_color(figure[1], color)>> /\ FigureOnly

CallUpdateNodeSize(size) ==
    figure' = <<update_node_size(figure[1], size)>> /\ FigureOnly

CallUpdateEdgeWidth(width) ==
    figure' = <<update_edge_width(figure[1], width)>> /\ FigureOnly

CallUpdateAnimationFrameLength(frame_length) ==
    figure' = <<update_animation_frame_length(figure[1], frame_length)>> /\ FigureOnly

\* UIGraphDisplayManager.__init__ and UIDefaultStyleOptionsManager.__init__
DisplayInit ==
    /\ layout_select = LAYOUT_FUNCTIONS[1]
    /\ layout_function = LAYOUT_FUNCTIONS[1]
    /\ apply_layout_button_disabled = FALSE
    /\ temp_graph = <<>>
    /\ cumulative_checkbox = <<>>
    /\ figure = <<>>
    /\ layout_call = <<>>
    /\ display_output = "empty"
    /\ style = InitStyle
    /\ apply_changes_button_disabled = FALSE

\* the call __compute_layout makes: the applied layout function with the
\* hyperparameters of the selected layout
compute_layout_call(selected, applied) ==
    [function |-> applied, parameters |-> accepted_parameters(selected)]

\* a call with a keyword argument the function does not accept raises
\* TypeError
call_raises(call) == call.parameters # accepted_parameters(call.function)

\* __start_graph_loading
start_graph_loading ==
    /\ start
    /\ display_output' = "empty"

\* display_graph followed by __stop_graph_loading
display_graph_and_stop_loading ==
    /\ display_output' = "graph"
    /\ stop

\* UIGraphDisplayManager.init_temporal_graph, as the run button calls it
init_temporal_graph(timesteps, selected_measures) ==
    LET call == compute_layout_call(layout_select, layout_function)
        graph == [timesteps |-> timesteps, cumulative |-> FALSE]
    IN  /\ temp_graph' = <<[graph |-> graph, in_figure |-> ~call_raises(call)]>>
        /\ layout_call' = <<call>>
        /\ IF call_raises(call)
           THEN UNCHANGED <<figure, cumulative_checkbox, mvars>>
           ELSE /\ requested_node_measures' = selected_measures
                /\ instantiated' = selected_measures
                /\ node_measures' =
                       [nm \in {selected_measures[i] : i \in 1 .. Len(selected_measures)}
                           |-> nm]
                /\ graph_measures' =
                       {selected_measures[i] : i \in 1 .. Len(selected_measures)}
                /\ nm_pc' = "added"
                /\ figure' = <<TemporalGraphFigure(graph, call,
                                                   ~is_static(layout_function), style)>>
                /\ cumulative_checkbox' = <<[value |-> FALSE, disabled |-> FALSE]>>
        /\ UNCHANGED <<layout_select, layout_function, apply_layout_button_disabled,
                       display_output, style, apply_changes_button_disabled, lvars>>

\* select_layout, observing the layout dropdown
select_layout(func) ==
    /\ func # layout_select
    /\ layout_select' = func
    /\ apply_layout_button_disabled' = FALSE
    /\ UNCHANGED <<layout_function, temp_graph, cumulative_checkbox, figure,
                   layout_call, display_output, style,
                   apply_changes_button_disabled, lvars, mvars>>

\* apply_layout, the Apply button of the layout box; without a figure the
\* handler ends in an exception after the layout call
apply_layout ==
    LET call == compute_layout_call(layout_select, layout_select)
    IN  /\ ~apply_layout_button_disabled
        /\ layout_function' = layout_select
        /\ layout_call' = <<call>>
        /\ IF figure = <<>>
           THEN /\ apply_layout_button_disabled' = TRUE
                /\ start_graph_loading
                /\ UNCHANGED figure
           ELSE /\ figure' =
                     <<update_layout(
                         [figure[1] EXCEPT !.transition_time =
                             toggle_animate_transitions(~is_static(layout_select))],
                         call)>>
                /\ apply_layout_button_disabled' = FALSE
                /\ display_graph_and_stop_loading
        /\ UNCHANGED <<layout_select, temp_graph, cumulative_checkbox, style,
                       apply_changes_button_disabled, calls, mvars>>

\* on_change, observing the cumulative checkbox
on_change_cumulative ==
    LET call  == compute_layout_call(layout_select, layout_function)
        value == ~cumulative_checkbox[1].value
        \* set_cumulative reaches the figure when it holds the same graph
        fig   == IF temp_graph[1].in_figure
                 THEN [figure[1] EXCEPT !.cumulative = value]
                 ELSE figure[1]
    IN  /\ cumulative_checkbox # <<>>
        /\ ~cumulative_checkbox[1].disabled
        /\ temp_graph' = <<[temp_graph[1] EXCEPT !.graph.cumulative = value]>>
        /\ layout_call' = <<call>>
        /\ IF call_raises(call)
           THEN /\ cumulative_checkbox' = <<[value |-> value, disabled |-> TRUE]>>
                /\ start_graph_loading
                /\ figure' = <<fig>>
           ELSE /\ cumulative_checkbox' = <<[value |-> value, disabled |-> FALSE]>>
                /\ figure' = <<update_layout(fig, call)>>
                /\ display_graph_and_stop_loading
        /\ UNCHANGED <<layout_select, layout_function, apply_layout_button_disabled,
                       style, apply_changes_button_disabled, calls, mvars>>

\* notify(observable) for the queries manager, the 'Apply to graph' button;
\* the queries manager exists once a temporal graph does
notify_queries_manager ==
    /\ temp_graph # <<>>
    /\ IF figure = <<>>
       THEN /\ start_graph_loading
            /\ UNCHANGED figure
       ELSE /\ figure' =
                 <<update_colors(update_filter(figure[1], get_node_filter),
                                 ColorDict(get_node_colors(style.node_color)))>>
            /\ display_graph_and_stop_loading
    /\ UNCHANGED <<layout_select, layout_function, apply_layout_button_disabled,
                   temp_graph, cumulative_checkbox, layout_call, style,
                   apply_changes_button_disabled, calls, mvars>>

\* the user edits the style widgets
edit_style(style_values) ==
    /\ style_values # style
    /\ style' = style_values
    /\ UNCHANGED <<layout_select, layout_function, apply_layout_button_disabled,
                   temp_graph, cumulative_checkbox, figure, layout_call,
                   display_output, apply_changes_button_disabled, lvars, mvars>>

\* on_change of UIDefaultStyleOptionsManager, its Apply button, with
\* notify(observable) for the style manager
style_on_change ==
    LET new == [style EXCEPT !.node_size = Abs(style.node_size),
                             !.edge_width = Abs(style.edge_width)]
    IN  /\ ~apply_changes_button_disabled
        /\ style' = new
        /\ IF figure = <<>>
           THEN /\ apply_changes_button_disabled' = TRUE
                /\ start_graph_loading
                /\ UNCHANGED figure
           ELSE /\ figure' =
                     <<update_animation_frame_length(
                         update_edge_width(
                           update_node_size(
                             update_edge_color(
                               update_colors(figure[1],
                                             ColorDict(get_node_colors(new.node_color))),
                               new.edge_color),
                             new.node_size),
                           new.edge_width),
                         new.animation_frame_length)>>
                /\ apply_changes_button_disabled' = FALSE
                /\ display_graph_and_stop_loading
        /\ UNCHANGED <<layout_select, layout_function, apply_layout_button_disabled,
                       temp_graph, cumulative_checkbox, layout_call, calls, mvars>>

(***************************************************************************)
(* Export of the animation: __build_export_video and VideoExport.          *)
(***************************************************************************)
\* the values of export_format_dropdown
ExportFormats == {"gif", "mp4", "mov", "avi"}

ffmpeg_formats == {"mp4", "mov", "avi"}

\* values of export_frame_length_text, in milliseconds
ExportFrameLengths == {500, 50}

\* the index pairs export_range_slider can hold for the displayed figure
TimeRanges ==
    IF figure = <<>> THEN {}
    ELSE {r \in (0 .. Len(figure[1].frames) - 1) \X (0 .. Len(figure[1].frames) - 1) :
            r[1] <= r[2]}

\* __init_export_widgets: the progress bar (an IntProgress keeps its default
\* maximum of 100) and the buttons
ExportInit ==
    /\ export_progressbar = [max |-> 100, value |-> 0, description |-> ""]
    /\ download_button_disabled = FALSE
    /\ queries_apply_button_disabled = FALSE
    /\ video_export_manager = <<>>

\* a graph is displayed: its figure under some node filter
DisplayedFigureInit ==
    /\ layout_select = LAYOUT_FUNCTIONS[1]
    /\ layout_function = LAYOUT_FUNCTIONS[1]
    /\ apply_layout_button_disabled = FALSE
    /\ temp_graph = <<>>
    /\ cumulative_checkbox = <<>>
    /\ figure \in
          { <<update_filter(
                 TemporalGraphFigure([timesteps |-> timesteps, cumulative |-> FALSE],
                                     compute_layout_call(LAYOUT_FUNCTIONS[1], LAYOUT_FUNCTIONS[1]),
                                     FALSE, InitStyle),
                 node_filter)>> :
              timesteps \in 1 .. MaxFigureTimesteps, node_filter \in FilterInputs }
    /\ layout_call = <<>>
    /\ display_output = "graph"
    /\ style = InitStyle
    /\ apply_changes_button_disabled = FALSE

\* initialize_progressbar: an IntProgress keeps its value within min and max
initialize_progressbar(bar, steps) ==
    [max |-> steps, value |-> 0, description |-> "Exporting:"]

\* increment_progress, on a widget that clamps its value to the maximum
increment_progress(bar) == [bar EXCEPT !.value = Clamp(bar.value + 1, 0, bar.max)]

\* the GIF duration: one length, or with speedup_empty_frames one length per
\* frame of the slice frames[start : end + 1], in milliseconds
gif_duration(frames, frame_length, time_range, speedup_empty_frames) ==
    IF speedup_empty_frames
    THEN LET speedup_length ==
                 IF frame_length \div 10 >= 10 THEN frame_length \div 10 ELSE 10
             slice == SubSeq(frames, time_range[1] + 1, time_range[2] + 1)
         IN  [scalar |-> <<>>,
              list |-> [k \in 1 .. Len(slice) |->
                          IF slice[k].node_ids # <<>> THEN frame_length
                          ELSE speedup_length]]
    ELSE [scalar |-> <<frame_length>>, list |-> <<>>]

\* VideoExport.__build_frame on a manager whose build index is a frame's: the
\* frame is rendered for the notebook to extract its image
export_build_frame(manager) ==
    [manager EXCEPT !.built = Append(manager.built, manager.build_index),
                    !.extracted = <<manager.build_index>>,
                    !.build_index = manager.build_index + 1]

\* VideoExport.__init__ up to the first __build_frame
VideoExport(frames, video_format, frame_length, time_range, speedup_empty_frames) ==
    export_build_frame(
        [frames |-> frames,
         time_range |-> time_range,
         frame_count |-> time_range[2] - time_range[1],
         video_format |-> video_format,
         duration |-> IF video_format = "gif"
                      THEN gif_duration(frames, frame_length, time_range,
                                        speedup_empty_frames)
                      ELSE [scalar |-> <<frame_length>>, list |-> <<>>],
         writer |-> [closed |-> FALSE, data |-> <<>>],
         build_index |-> 0,
         written_frames |-> 0,
         built |-> <<>>,
         extracted |-> <<>>,
         finished |-> FALSE])

\* export_video: a click on the export button
export_video(video_format, frame_length, time_range, speedup_empty_frames) ==
    /\ figure # <<>>
    /\ ~download_button_disabled
    /\ apply_layout_button_disabled' = TRUE
    /\ queries_apply_button_disabled' = TRUE
    /\ apply_changes_button_disabled' = TRUE
    /\ download_button_disabled' = TRUE
    /\ video_export_manager' =
          <<VideoExport(figure[1].frames, video_format, frame_length, time_range,
                        speedup_empty_frames)>>
    /\ export_progressbar' =
          increment_progress(
              initialize_progressbar(export_progressbar,
                                     (time_range[2] - time_range[1]) * 2))
    /\ UNCHANGED <<layout_select, layout_function, temp_graph, cumulative_checkbox,
                   figure, layout_call, display_output, style>>

\* write_export_frame / VideoExport.write_frame: the notebook hands in the
\* image of the frame built last, a valid image
write_export_frame ==
    /\ video_export_manager # <<>>
    /\ video_export_manager[1].extracted # <<>>
    /\ LET manager == video_export_manager[1]
           written ==
               [manager EXCEPT
                   !.writer.data = Append(manager.writer.data, manager.extracted[1]),
                   !.extracted = <<>>,
                   !.written_frames = manager.written_frames + 1]
           bar     == increment_progress(export_progressbar)
       IN  IF written.written_frames = written.frame_count
           THEN \* __finish and progress_finished
                /\ video_export_manager' =
                      <<[written EXCEPT !.writer.closed = TRUE, !.finished = TRUE]>>
                /\ export_progressbar' = [bar EXCEPT !.description = "Finished!"]
                /\ apply_layout_button_disabled' = FALSE
                /\ queries_apply_button_disabled' = FALSE
                /\ apply_changes_button_disabled' = FALSE
                /\ download_button_disabled' = FALSE
           ELSE IF written.build_index < Len(written.frames)
           THEN \* the next frame is built
                /\ video_export_manager' = <<export_build_frame(written)>>
                /\ export_progressbar' = increment_progress(bar)
                /\ UNCHANGED <<apply_layout_button_disabled,
                               queries_apply_button_disabled,
                               apply_changes_button_disabled, download_button_disabled>>
           ELSE \* __build_frame raises IndexError, the except clause closes the writer
                /\ video_export_manager' = <<[written EXCEPT !.writer.closed = TRUE]>>
                /\ export_progressbar' = bar
                /\ UNCHANGED <<apply_layout_button_disabled,
                               queries_apply_button_disabled,
                               apply_changes_button_disabled, download_button_disabled>>
    /\ UNCHANGED <<layout_select, layout_function, temp_graph, cumulative_checkbox,
                   figure, layout_call, display_output, style>>

(***************************************************************************)
(* Specifications.                                                         *)
(***************************************************************************)
uvars == <<run_button_disabled, edge_list, granularity,
           granularity_bounded_int_text, granularity_unit_dropdown,
           graph_data_output>>

dvars == <<layout_select, layout_function, apply_layout_button_disabled,
           temp_graph, cumulative_checkbox, figure, layout_call, display_output,
           style, apply_changes_button_disabled>>

evars == <<export_progressbar, download_button_disabled,
           queries_apply_button_disabled, video_export_manager>>

vars == <<qvars, pvars, ops, lvars, mvars, uvars, dvars, evars>>

\* one more handler call, within the budget
QueryOp == ops < MaxQueryOps /\ ops' = ops + 1

NextQueries ==
    \/ \E in \in AddQueryInputs :
           AddQuery(in[1], in[2], in[3], in[4]) /\ QueryOp /\ UNCHANGED <<evars, pvars, lvars, mvars, uvars, dvars>>
    \/ \E query_id \in DOMAIN get_queries_reference, in \in AddClauseInputs :
           AddQueryClause(query_id, in[1], in[2], in[3]) /\ QueryOp /\ UNCHANGED <<evars, pvars, lvars, mvars, uvars, dvars>>
    \/ \E query_id \in DOMAIN get_queries_reference :
           \E clause_id \in DOMAIN get_queries_reference[query_id].clauses :
               DeleteQueryClause(query_id, clause_id) /\ QueryOp /\ UNCHANGED <<evars, pvars, lvars, mvars, uvars, dvars>>
    \/ \E query_id \in DOMAIN get_queries_reference :
           DeleteQuery(query_id) /\ QueryOp /\ UNCHANGED <<evars, pvars, lvars, mvars, uvars, dvars>>
    \/ \E query_id \in DOMAIN get_queries_reference :
           SwitchQuery(query_id) /\ QueryOp /\ UNCHANGED <<evars, pvars, lvars, mvars, uvars, dvars>>
    \/ \E query_id \in DOMAIN get_queries_reference, color \in Colors :
           PaintQuery(query_id, color) /\ QueryOp /\ UNCHANGED <<evars, pvars, lvars, mvars, uvars, dvars>>
    \/ DeleteAllQueries /\ QueryOp /\ UNCHANGED <<evars, pvars, lvars, mvars, uvars, dvars>>
    \/ \E new \in Modes : ModeChange(new) /\ QueryOp /\ UNCHANGED <<evars, pvars, lvars, mvars, uvars, dvars>>

InitQueries ==
    QueriesInit /\ PureIdle /\ LoadingInit /\ MeasuresIdle /\ UploadInit /\ ExportInit /\ DisplayInit /\ ops = 0

SpecQueries == InitQueries /\ [][NextQueries]_vars

NextClause == CallBuildClause /\ UNCHANGED <<evars, qvars, ops, lvars, mvars, uvars, dvars>>

InitClause ==
    QueriesInit /\ ClauseInit /\ LoadingInit /\ MeasuresIdle /\ UploadInit /\ ExportInit /\ DisplayInit /\ ops = 0

SpecClause == InitClause /\ [][NextClause]_vars

NextPredicate == CallBuildPredicate /\ UNCHANGED <<evars, qvars, ops, lvars, mvars, uvars, dvars>>

InitPredicate ==
    QueriesInit /\ PredicateInit /\ LoadingInit /\ MeasuresIdle /\ UploadInit /\ ExportInit /\ DisplayInit /\ ops = 0

SpecPredicate == InitPredicate /\ [][NextPredicate]_vars

NextLoading ==
    \/ CallStart /\ UNCHANGED <<evars, qvars, pvars, ops, mvars, uvars, dvars>>
    \/ CallStop /\ UNCHANGED <<evars, qvars, pvars, ops, mvars, uvars, dvars>>

InitLoading ==
    QueriesInit /\ PureIdle /\ LoadingInit /\ MeasuresIdle /\ UploadInit /\ ExportInit /\ DisplayInit /\ ops = 0

SpecLoading == InitLoading /\ [][NextLoading]_vars

NextMeasures ==
    \/ NodeMeasuresManager_init /\ UNCHANGED <<evars, qvars, pvars, ops, lvars, uvars, dvars>>
    \/ add_all_to_graph /\ UNCHANGED <<evars, qvars, pvars, ops, lvars, uvars, dvars>>

InitMeasures ==
    QueriesInit /\ PureIdle /\ LoadingInit /\ MeasuresInit /\ UploadInit /\ ExportInit /\ DisplayInit /\ ops = 0

SpecMeasures == InitMeasures /\ [][NextMeasures]_vars

NextUpload ==
    \/ \E read \in ReadOutcomes :
           handle_upload_graph_data(read) /\ UNCHANGED <<evars, qvars, pvars, ops, mvars, dvars>>
    \/ \E value \in TextInputs :
           change_granularity_text(value) /\ UNCHANGED <<evars, qvars, pvars, ops, lvars, mvars, dvars>>
    \/ \E unit \in TimeUnits :
           update_granularity_step(unit) /\ UNCHANGED <<evars, qvars, pvars, ops, lvars, mvars, dvars>>
    \/ update_granularity_and_graph_data_output /\ UNCHANGED <<evars, qvars, pvars, ops, mvars, dvars>>

InitUpload ==
    QueriesInit /\ PureIdle /\ LoadingInit /\ MeasuresIdle /\ UploadInit /\ ExportInit /\ DisplayInit /\ ops = 0

SpecUpload == InitUpload /\ [][NextUpload]_vars

\* one more handler call of the queries manager next to the display
DisplayQueryOp == ops < MaxDisplayQueryOps /\ ops' = ops + 1

NextDisplay ==
    \/ \E timesteps \in 1 .. MaxTimesteps, selected_measures \in SelectedMeasures :
           init_temporal_graph(timesteps, selected_measures)
           /\ UNCHANGED <<evars, qvars, pvars, ops, uvars>>
    \/ \E func \in LayoutSelections :
           select_layout(func) /\ UNCHANGED <<evars, qvars, pvars, ops, uvars>>
    \/ apply_layout /\ UNCHANGED <<evars, qvars, pvars, ops, uvars>>
    \/ on_change_cumulative /\ UNCHANGED <<evars, qvars, pvars, ops, uvars>>
    \/ notify_queries_manager /\ UNCHANGED <<evars, qvars, pvars, ops, uvars>>
    \/ \E style_values \in StyleInputs :
           edit_style(style_values) /\ UNCHANGED <<evars, qvars, pvars, ops, uvars>>
    \/ style_on_change /\ UNCHANGED <<evars, qvars, pvars, ops, uvars>>
    \/ \E in \in DisplayQueryInputs :
           /\ temp_graph # <<>>
           /\ AddQuery(in[1], in[2], in[3], in[4])
           /\ DisplayQueryOp
           /\ UNCHANGED <<evars, pvars, lvars, mvars, uvars, dvars>>
    \/ \E new \in Modes :
           /\ temp_graph # <<>>
           /\ ModeChange(new)
           /\ DisplayQueryOp
           /\ UNCHANGED <<evars, pvars, lvars, mvars, uvars, dvars>>

InitDisplay ==
    QueriesInit /\ PureIdle /\ LoadingInit /\ MeasuresIdle /\ UploadInit /\ ExportInit /\ DisplayInit
    /\ ops = 0

SpecDisplay == InitDisplay /\ [][NextDisplay]_vars

NextFigure ==
    \/ \E node_filter \in FilterInputs :
           CallUpdateFilter(node_filter) /\ UNCHANGED <<evars, qvars, pvars, ops, lvars, mvars, uvars>>
    \/ \E layout \in LayoutInputs :
           CallUpdateLayout(layout) /\ UNCHANGED <<evars, qvars, pvars, ops, lvars, mvars, uvars>>
    \/ \E color_map \in ColorMapInputs :
           CallUpdateColors(color_map) /\ UNCHANGED <<evars, qvars, pvars, ops, lvars, mvars, uvars>>
    \/ \E color \in EdgeColorInputs :
           CallUpdateEdgeColor(color) /\ UNCHANGED <<evars, qvars, pvars, ops, lvars, mvars, uvars>>
    \/ \E size \in NodeSizeInputs :
           CallUpdateNodeSize(size) /\ UNCHANGED <<evars, qvars, pvars, ops, lvars, mvars, uvars>>
    \/ \E width \in EdgeWidthInputs :
           CallUpdateEdgeWidth(width) /\ UNCHANGED <<evars, qvars, pvars, ops, lvars, mvars, uvars>>
    \/ \E frame_length \in FrameLengthInputs :
           CallUpdateAnimationFrameLength(frame_length)
           /\ UNCHANGED <<evars, qvars, pvars, ops, lvars, mvars, uvars>>

InitFigure ==
    QueriesInit /\ PureIdle /\ LoadingInit /\ MeasuresIdle /\ UploadInit /\ ExportInit /\ FigureInit
    /\ ops = 0

SpecFigure == InitFigure /\ [][NextFigure]_vars

\* the notebook hands an extracted image to the export
NotebookWritesFrame ==
    write_export_frame /\ UNCHANGED <<qvars, pvars, ops, lvars, mvars, uvars>>

NextExport ==
    \/ \E video_format \in ExportFormats, frame_length \in ExportFrameLengths,
          time_range \in TimeRanges, speedup_empty_frames \in BOOLEAN :
           export_video(video_format, frame_length, time_range, speedup_empty_frames)
           /\ UNCHANGED <<qvars, pvars, ops, lvars, mvars, uvars>>
    \/ NotebookWritesFrame

InitExport ==
    QueriesInit /\ PureIdle /\ LoadingInit /\ MeasuresIdle /\ UploadInit /\ ExportInit
    /\ DisplayedFigureInit /\ ops = 0

SpecExport == InitExport /\ [][NextExport]_vars

\* the notebook calls write_export_frame for every image it has extracted
SpecExportFair == SpecExport /\ WF_vars(NotebookWritesFrame)

(***************************************************************************)
(* Properties of the queries manager.                                      *)
(***************************************************************************)
FilterState == <<filter_queries, active_filter_queries, filter_query_counter>>

HighlightState == <<highlight_queries, active_highlight_queries, highlight_query_counter>>

\* C1: filter and highlight queries are maintained separately: a handler run
\* while one mode is selected leaves the other mode's query dictionary,
\* active-query list and query counter unchanged, and a change of the mode
\* changes none of the six.
C1_ModesSeparate ==
    [][ /\ (mode' = mode /\ mode = "Filter") => UNCHANGED HighlightState
        /\ (mode' = mode /\ mode = "Highlight") => UNCHANGED FilterState
        /\ (mode' # mode) => UNCHANGED <<FilterState, HighlightState>> ]_vars

\* C1 witness: handlers have run in filter mode while highlight queries exist,
\* and the highlight counter is past its initial value.
C1_Witness ==
    /\ mode = "Filter"
    /\ DOMAIN filter_queries # {}
    /\ DOMAIN highlight_queries # {}
    /\ highlight_query_counter > 1
    /\ filter_query_counter > 1

\* the active highlight queries whose clause expression matches node n
MatchingHighlights(n) ==
    {i \in DOMAIN highlight_queries :
        /\ \E k \in 1 .. Len(active_highlight_queries) : active_highlight_queries[k] = i
        /\ n \in build_clause(highlight_queries[i].clauses).nodes}

\* C2: in the mapping get_node_colors returns every node of the graph has a
\* colour; a node matched by active highlight queries has the colour of the
\* matching active query with the smallest id, a node matched by none has
\* the default colour.
C2_OldestOverrides ==
    LET colors == get_node_colors(DefaultColor)
    IN  /\ DOMAIN colors = NodeIds
        /\ \A n \in NodeIds :
              IF MatchingHighlights(n) = {}
              THEN colors[n] = DefaultColor
              ELSE \E i \in MatchingHighlights(n) :
                      /\ \A j \in MatchingHighlights(n) : i <= j
                      /\ colors[n] = highlight_queries[i].color

\* C2 witness: two active highlight queries of different colours match the
\* same node, and some node is matched by none.
C2_Witness ==
    /\ \E n \in NodeIds : \E i, j \in MatchingHighlights(n) :
          i < j /\ highlight_queries[i].color # highlight_queries[j].color
    /\ \E n \in NodeIds : MatchingHighlights(n) = {}

\* a query of the current mode counts as active when its id is in the
\* active list of that mode: then it is part of what get_node_filter and
\* get_node_colors build from
IsActive(q) == \E k \in 1 .. Len(get_active_queries_reference) :
                  get_active_queries_reference[k] = q

\* C10 (as claimed): one switch_query call on an active query of the current
\* mode leaves it inactive, one on an inactive query leaves it active, after
\* any sequence of add query, delete query, delete clause and Reset.
C10_ToggleFlips ==
    [][ \A q \in DOMAIN get_queries_reference :
           SwitchQuery(q) => (IsActive(q)' <=> ~IsActive(q)) ]_vars

(***************************************************************************)
(* Properties of build_clause and build_predicate.                         *)
(***************************************************************************)
\* the k-th smallest clause id of a clause dictionary
KthKey(K, k) == CHOOSE x \in K : Cardinality({y \in K : y < x}) = k - 1

\* the nodes the predicate of one clause accepts
Matched(raw) == {n \in NodeIds : build_predicate(raw, n)}

RECURSIVE LeftFold(_, _)
\* (((+/-p1) op2 p2) op3 p3) ... up to the k-th clause in ascending id order
LeftFold(d, k) ==
    LET c == d[KthKey(DOMAIN d, k)]
        p == Matched(c)
    IN  IF k = 1
        THEN (IF c.operator = "NOT" THEN NodeIds \ p ELSE p)
        ELSE LET acc == LeftFold(d, k - 1)
             IN  CASE c.operator = "AND"     -> acc \cap p
                   [] c.operator = "OR"      -> acc \cup p
                   [] c.operator = "AND NOT" -> acc \ p
                   [] c.operator = "OR NOT"  -> acc \cup (NodeIds \ p)

\* C3: build_clause composes the predicates strictly left to right in
\* ascending clause-id order with no operator precedence: the result is the
\* left fold, with AND as intersection, OR as union, NOT as complement.
C3_LeftFold ==
    pure_pc = "done" /\ DOMAIN raw_clause # {} =>
        /\ ~clause_result.is_none
        /\ clause_result.nodes = LeftFold(raw_clause, Cardinality(DOMAIN raw_clause))

\* C3 witness: build_clause has run on p1 OR p2 AND p3 with clause ids that
\* are not contiguous, and the result differs from p1 OR (p2 AND p3).
C3_Witness ==
    /\ pure_pc = "done"
    /\ DOMAIN raw_clause = {1, 3, 4}
    /\ raw_clause[1].operator = "NEW"
    /\ raw_clause[3].operator = "OR"
    /\ raw_clause[4].operator = "AND"
    /\ clause_result.nodes #
          Matched(raw_clause[1]) \cup (Matched(raw_clause[3]) \cap Matched(raw_clause[4]))

\* C4: build_predicate yields a range test inclusive at both ends for
\* ordinal (by category order) and interval attributes, an equality test for
\* nominal attributes and an equality test on the node id for 'Node ID'.
C4_PredicateMeaning ==
    pure_pc = "done" /\ raw_clause = EmptyDict =>
        LET name  == raw_predicate.value[1]
            value == raw_predicate.value[2]
        IN  predicate_result =
              CASE measurement_type(name) = "O" ->
                     {n \in NodeIds :
                        \E lo, hi, at \in 1 .. Len(categories(name)) :
                           /\ categories(name)[lo] = value[1]
                           /\ categories(name)[hi] = value[2]
                           /\ categories(name)[at] = NodeAttributes[n].grade
                           /\ lo <= at /\ at <= hi}
                [] measurement_type(name) = "I" ->
                     {n \in NodeIds : NodeAttributes[n].age \in value[1] .. value[2]}
                [] measurement_type(name) = "N" ->
                     {n \in NodeIds : NodeAttributes[n].sex = value}
                [] measurement_type(name) = "ID" -> NodeIds \cap {value}

\* C4 witness: a range predicate has accepted a node sitting on its lower
\* bound and a node sitting on its upper bound.
C4_Witness ==
    /\ pure_pc = "done"
    /\ raw_predicate.value = <<"grade", <<"mid", "high">>>>
    /\ predicate_result = {2, 3, 4}

(***************************************************************************)
(* Properties of the loading indicator.                                    *)
(***************************************************************************)
\* C6: a LoadingIndicator is hidden right after construction; after any
\* sequence of start() and stop() calls its box is visible iff the most
\* recent call was start(), and what it shows depends on that call alone, so
\* repeated start() calls and repeated stop() calls change nothing.
C6_VisibleIffStarted ==
    /\ calls = <<>> => box_display = "none" /\ output = <<>>
    /\ calls # <<>> /\ calls[Len(calls)] = "start" =>
          box_display = "flex" /\ output = <<"SVG">>
    /\ calls # <<>> /\ calls[Len(calls)] = "stop" =>
          box_display = "none" /\ output = <<>>

\* C6 witness: start() was called twice in a row after a stop().
C6_Witness ==
    /\ Len(calls) >= 3
    /\ calls[Len(calls)] = "start"
    /\ calls[Len(calls) - 1] = "start"
    /\ calls[Len(calls) - 2] = "stop"
    /\ box_display = "flex"

(***************************************************************************)
(* Properties of the node measures manager.                                *)
(***************************************************************************)
HasDuplicates(names) == \E i, j \in 1 .. Len(names) : i # j /\ names[i] = names[j]

\* C7: NodeMeasuresManager raises DuplicateMeasuresError iff a measure name
\* is requested more than once, and then before any measure is instantiated;
\* otherwise it holds exactly one computed measure per requested name; no
\* measure is attached to the graph until add_all_to_graph is called.
C7_DuplicatesRejected ==
    /\ nm_pc = "raised" => HasDuplicates(requested_node_measures) /\ instantiated = <<>>
    /\ nm_pc \in {"constructed", "added"} =>
          /\ ~HasDuplicates(requested_node_measures)
          /\ DOMAIN node_measures =
                {requested_node_measures[i] : i \in 1 .. Len(requested_node_measures)}
          /\ Cardinality(DOMAIN node_measures) = Len(requested_node_measures)
          /\ \A nm \in DOMAIN node_measures : Count(instantiated, nm) = 1
    /\ nm_pc # "added" => graph_measures = {}
    /\ nm_pc = "added" => graph_measures = DOMAIN node_measures

\* C7 witness: the constructor has raised on a list that names one measure
\* twice among others.
C7_Witness ==
    /\ nm_pc = "raised"
    /\ Len(requested_node_measures) = 3
    /\ requested_node_measures[1] = requested_node_measures[3]
    /\ requested_node_measures[1] # requested_node_measures[2]

(***************************************************************************)
(* Properties of the upload manager.                                       *)
(***************************************************************************)
\* C5: the run button is disabled when the upload manager is created, and in
\* every reachable state where it is enabled a graph upload has succeeded
\* and a granularity has been set: the stored edge list and the stored
\* granularity are both not None.
C5_RunButtonGuarded ==
    ~run_button_disabled => (edge_list # <<>> /\ granularity # <<>>)

\* C5 witness: the run button is enabled after an upload succeeded and a
\* later upload failed, the configuration box being emptied by the failure.
C5_Witness ==
    /\ ~run_button_disabled
    /\ graph_data_output = "error"
    /\ granularity_bounded_int_text = NoWidget
    /\ edge_list # <<>>

\* C20: whenever the run button is enabled the stored granularity is valid for
\* the loaded edge list by the rule of the Apply handler: it lies between
\* update_delta and latest - earliest and is a multiple of update_delta; this
\* covers the default of 100 times update_delta set on upload.
C20_GranularityValid ==
    ~run_button_disabled =>
        /\ edge_list # <<>>
        /\ granularity # <<>>
        /\ granularity[1] >= edge_list[1].update_delta
        /\ granularity[1] <= edge_list[1].latest - edge_list[1].earliest
        /\ granularity[1] % edge_list[1].update_delta = 0

(***************************************************************************)
(* Properties of the display manager.                                      *)
(***************************************************************************)
\* C8 (as claimed): every call of a layout function made by
\* init_temporal_graph, Apply layout and the cumulative-checkbox handler
\* passes the hyperparameters of the function's own family: a spring layout
\* gets node_distance_scale and n_iterations, the PCA layout gets n and repel.
C8_CallWithOwnParameters ==
    layout_call # <<>> =>
        layout_call[1].parameters =
            (IF layout_call[1].function \in SpringLayouts
             THEN {"node_distance_scale", "n_iterations"}
             ELSE {"n", "repel"})

\* the transition duration the applied layout function asks for
AppliedTransitionTime == IF is_static(layout_function) THEN 0 ELSE 300

\* C9: whenever a figure exists (after its construction, after every Apply
\* layout and after any later filter, colour, style or cumulative update) the
\* transition duration stored in it, at the play button and at every slider
\* step, is 0 when the applied layout function is static and 300 otherwise.
C9_TransitionFollowsLayout ==
    figure # <<>> =>
        /\ figure[1].transition_time = AppliedTransitionTime
        /\ figure[1].play_transition_duration = AppliedTransitionTime
        /\ figure[1].sliders_transition_duration = AppliedTransitionTime
        /\ Len(figure[1].slider_steps) = figure[1].timesteps
        /\ \A i \in 1 .. Len(figure[1].slider_steps) :
               figure[1].slider_steps[i] = AppliedTransitionTime

\* C9 witness: a figure constructed for the static default layout, after
\* Apply of a non-static layout and a later style, filter and cumulative
\* update: the transitions are animated.
C9_Witness ==
    /\ figure # <<>>
    /\ ~is_static(layout_function)
    /\ figure[1].slider_steps # <<>>
    /\ figure[1].slider_steps[1] = 300
    /\ figure[1].frame_length # DEFAULT_ANIMATION_FRAME_LENGTH
    /\ figure[1].color_map.uniform = <<>>
    /\ temp_graph[1].graph.cumulative
    /\ display_output = "graph"

(***************************************************************************)
(* Properties of the node filter.                                          *)
(***************************************************************************)
\* the filter queries that exist and are in the active list
ExistingActiveFilterQueries ==
    {q \in DOMAIN filter_queries : InSeq(q, active_filter_queries)}

\* the nodes satisfying the clause expression of filter query q
ClauseNodes(q) == build_clause(filter_queries[q].clauses).nodes

\* C11: get_node_filter is the union of exactly the filter queries that exist
\* and are active: a node passes iff it satisfies the clause expression of at
\* least one such query, and every node passes when there is none.
C11_FilterIsUnionOfActive ==
    /\ ~get_node_filter.is_none
    /\ \A n \in NodeIds :
           n \in get_node_filter.nodes <=>
               \/ ExistingActiveFilterQueries = {}
               \/ \E q \in ExistingActiveFilterQueries : n \in ClauseNodes(q)

\* C11 witness: two active filter queries, each letting through fewer nodes
\* than the filter, next to a stored filter query that is switched off.
C11_Witness ==
    /\ \E q1, q2 \in ExistingActiveFilterQueries :
           /\ ClauseNodes(q1) # ClauseNodes(q2)
           /\ ClauseNodes(q1) # get_node_filter.nodes
           /\ ClauseNodes(q2) # get_node_filter.nodes
    /\ \E q \in DOMAIN filter_queries : ~InSeq(q, active_filter_queries)

(***************************************************************************)
(* Properties of the overview of queried nodes.                            *)
(***************************************************************************)
\* C12 (as claimed): in the overview every active query of the selected mode
\* has an entry, and the node count, the first node ids and the are_all_nodes
\* flag attached to that entry are those of the same query, whatever other
\* queries are active or switched off.
C12_SummaryOfSameQuery ==
    \A i \in 1 .. Len(relevant_nodes_overview) :
        LET entry == relevant_nodes_overview[i]
        IN  (/\ entry.query_id \in DOMAIN get_queries_reference
             /\ InSeq(entry.query_id, get_active_queries_reference))
            => entry.summary =
                   <<relevant_node_summary(get_queries_reference[entry.query_id],
                                           RELEVANT_NODE_DISPLAY_LIMIT)>>

(***************************************************************************)
(* Properties of the figure.                                               *)
(***************************************************************************)
\* the endpoints of the edges listed
Endpoints(edges) ==
    {edges[k][1] : k \in 1 .. Len(edges)} \cup {edges[k][2] : k \in 1 .. Len(edges)}

SeqToSet(seq) == {seq[k] : k \in 1 .. Len(seq)}

\* C13: in every frame only edges whose two endpoints both pass the current
\* node filter are displayed (and every such edge of the timestep is), and the
\* displayed nodes are exactly the endpoints of the displayed edges of that
\* frame: a node that passes the filter without a displayed edge is not shown.
C13_FramesFollowFilter ==
    figure # <<>> =>
        \A t \in 1 .. Len(figure[1].frames) :
            LET frame  == figure[1].frames[t]
                passes == figure[1].node_filter.nodes
                all    == get_edges(t, figure[1].cumulative)
            IN  /\ \A k \in 1 .. Len(frame.edges) :
                       frame.edges[k][1] \in passes /\ frame.edges[k][2] \in passes
                /\ SeqToSet(frame.edges) =
                       {e \in SeqToSet(all) : e[1] \in passes /\ e[2] \in passes}
                /\ SeqToSet(frame.node_ids) = Endpoints(frame.edges)
                /\ Len(frame.node_ids) = Cardinality(Endpoints(frame.edges))

\* C13 witness: after update_filter a frame shows an edge and its two nodes
\* while a node that passes the filter has only edges to filtered-out nodes
\* in that timestep and is not shown.
C13_Witness ==
    /\ figure # <<>>
    /\ figure[1].node_filter.nodes # NodeIds
    /\ \E t \in 1 .. Len(figure[1].frames) :
           LET frame == figure[1].frames[t]
           IN  /\ frame.edges # <<>>
               /\ \E n \in figure[1].node_filter.nodes :
                      /\ n \in Endpoints(get_edges(t, figure[1].cumulative))
                      /\ n \notin SeqToSet(frame.node_ids)

\* C14: after any sequence of update_filter, update_layout and update_colors
\* calls, in every frame the node marker colours have exactly one entry per
\* displayed node and the i-th colour is the colour the colour map assigns to
\* the i-th displayed node id (a single colour string stands for every node).
C14_ColorsMatchDisplayedNodes ==
    figure # <<>> =>
        \A t \in 1 .. Len(figure[1].frames) :
            LET frame     == figure[1].frames[t]
                color_map == figure[1].color_map
            IN  IF color_map.uniform = <<>>
                THEN /\ frame.colors.uniform = <<>>
                     /\ Len(frame.colors.list) = Len(frame.node_ids)
                     /\ \A i \in 1 .. Len(frame.node_ids) :
                            frame.colors.list[i] = color_map.map[frame.node_ids[i]]
                ELSE frame.colors.uniform = color_map.uniform

\* C15: a style update called with the value currently stored leaves the
\* whole figure unchanged, and calling a style update twice in a row with the
\* same value gives the figure that calling it once gives.
C15_StyleUpdatesIdempotent ==
    figure # <<>> =>
        LET fig == figure[1]
        IN  /\ update_colors(fig, fig.color_map) = fig
            /\ update_edge_color(fig, fig.edge_color) = fig
            /\ update_node_size(fig, fig.node_size) = fig
            /\ update_edge_width(fig, fig.edge_width) = fig
            /\ update_animation_frame_length(fig, fig.frame_length) = fig
            /\ \A color_map \in ColorMapInputs :
                   update_colors(update_colors(fig, color_map), color_map)
                       = update_colors(fig, color_map)
            /\ \A color \in EdgeColorInputs :
                   update_edge_color(update_edge_color(fig, color), color)
                       = update_edge_color(fig, color)
            /\ \A size \in NodeSizeInputs :
                   update_node_size(update_node_size(fig, size), size)
                       = update_node_size(fig, size)
            /\ \A width \in EdgeWidthInputs :
                   update_edge_width(update_edge_width(fig, width), width)
                       = update_edge_width(fig, width)
            /\ \A frame_length \in FrameLengthInputs :
                   update_animation_frame_length(
                       update_animation_frame_length(fig, frame_length), frame_length)
                       = update_animation_frame_length(fig, frame_length)

\* C15 witness: a figure every style value of which has been changed by an
\* update, under a filter that hides nodes, so that a repeated call is a call
\* with the stored value on frames built by the earlier calls.
C15_Witness ==
    /\ figure # <<>>
    /\ figure[1].color_map.uniform = <<>>
    /\ figure[1].edge_color # InitStyle.edge_color
    /\ figure[1].node_size # InitStyle.node_size
    /\ figure[1].edge_width # InitStyle.edge_width
    /\ figure[1].frame_length # DEFAULT_ANIMATION_FRAME_LENGTH
    /\ figure[1].node_filter.nodes # NodeIds
    /\ \E t \in 1 .. Len(figure[1].frames) : figure[1].frames[t].node_ids # <<>>

\* C16: after construction and after every update operation the figure has
\* exactly one frame and one slider step per timestep, in timestep order, its
\* initial data is the data of frame 0, and the frame duration of the play
\* button is the animation frame length applied most recently.
C16_FigureShape ==
    /\ [](figure # <<>> =>
             LET fig == figure[1]
             IN  /\ fig.timesteps >= 1
                 /\ Len(fig.frames) = fig.timesteps
                 /\ Len(fig.slider_args) = fig.timesteps
                 /\ Len(fig.slider_steps) = fig.timesteps
                 /\ \A t \in 1 .. fig.timesteps :
                        fig.frames[t].name = t - 1 /\ fig.slider_args[t] = t - 1
                 /\ fig.data = <<fig.frames[1]>>
                 /\ fig.play_frame_duration = fig.frame_length)
    /\ [][\A frame_length \in FrameLengthInputs :
              CallUpdateAnimationFrameLength(frame_length)
                  => figure'[1].play_frame_duration = frame_length]_vars

\* C16 witness: a figure of several timesteps whose frames were rebuilt by a
\* filter update after a new animation frame length had been applied.
C16_Witness ==
    /\ figure # <<>>
    /\ Len(figure[1].frames) >= 2
    /\ figure[1].node_filter.nodes # NodeIds
    /\ figure[1].frame_length # DEFAULT_ANIMATION_FRAME_LENGTH
    /\ figure[1].play_frame_duration = figure[1].frame_length

(***************************************************************************)
(* Properties of the export.                                               *)
(***************************************************************************)
\* the frame indices of a time range, in order
RangeFrames(time_range) ==
    [k \in 1 .. (time_range[2] - time_range[1] + 1) |-> time_range[1] + k - 1]

IsPrefix(seq, of) ==
    Len(seq) <= Len(of) /\ \A k \in 1 .. Len(seq) : seq[k] = of[k]

\* C17: every started export eventually finishes: progress_finished is
\* called, the writer is closed and the apply-layout, apply-queries,
\* apply-style and export buttons are enabled again, whatever the time range,
\* when the notebook calls write_frame for every frame that was built.
C17_ExportFinishes ==
    (video_export_manager # <<>> /\ download_button_disabled)
        ~> (/\ video_export_manager # <<>>
            /\ video_export_manager[1].finished
            /\ video_export_manager[1].writer.closed
            /\ ~apply_layout_button_disabled
            /\ ~queries_apply_button_disabled
            /\ ~apply_changes_button_disabled
            /\ ~download_button_disabled)

\* C18: an export builds and writes the frames start, start + 1, ..., end of
\* the selected time range, each once and in this order, all of them once it
\* has finished, and the k-th entry of a GIF's duration list is the duration
\* of the k-th written frame.
C18_WritesSelectedRange ==
    video_export_manager # <<>> =>
        LET manager == video_export_manager[1]
            range   == RangeFrames(manager.time_range)
        IN  /\ IsPrefix(manager.built, range)
            /\ IsPrefix(manager.writer.data, range)
            /\ manager.finished => manager.writer.data = range
            /\ manager.duration.scalar = <<>> =>
                   \A k \in 1 .. Len(manager.writer.data) :
                       \* the k-th duration was computed from frame start + k - 1
                       /\ k <= Len(manager.duration.list)
                       /\ manager.writer.data[k] = manager.time_range[1] + k - 1

\* C19: the maximum of the progress bar is twice the number of frames to
\* export, the progress value never exceeds the maximum during an export, and
\* it equals the maximum exactly when progress_finished has been called.
C19_TwoStepsPerFrame ==
    video_export_manager # <<>> =>
        LET manager == video_export_manager[1]
        IN  /\ export_progressbar.max = 2 * Len(RangeFrames(manager.time_range))
            /\ export_progressbar.value <= export_progressbar.max
            /\ (export_progressbar.value = export_progressbar.max) <=> manager.finished

====
